---- MODULE Spec2Model ----
(***************************************************************************)
(* Model of the video translation pipeline of src/main.py:                 *)
(*   - VideoTranslator.adjust_audio_duration, the duration reconciliation  *)
(*     engine (speed factor, near-identity / single-step / chained tempo   *)
(*     policy), and                                                        *)
(*   - VideoTranslator.translate_video, the orchestrator that sequences    *)
(*     probe, extract, transcribe, translate, synthesize, reconcile and    *)
(*     compose inside a temporary directory.                               *)
(*                                                                         *)
(* Durations are whole numbers of one time unit. A ratio of two durations  *)
(* and every tempo factor is an exact rational <<n, d>> with d > 0, so the *)
(* comparisons against 0.05, 0.5, 1.0 and 2.0 are the comparisons of the   *)
(* source on the exact quotient.                                           *)
(***************************************************************************)
EXTENDS Integers, Sequences, FiniteSets

(* Largest duration drawn when adjust_audio_duration is explored alone.    *)
MaxDuration == 21

(* Largest duration the probe and the synthesis return in the pipeline.    *)
PipeMaxDuration == 3

----------------------------------------------------------------------------
(* Exact rationals <<n, d>>, d > 0.                                        *)

Rat(n, d) == <<n, d>>

RLt(a, b) == a[1] * b[2] < b[1] * a[2]

RLe(a, b) == a[1] * b[2] <= b[1] * a[2]

REq(a, b) == a[1] * b[2] = b[1] * a[2]

RSub(a, b) == <<a[1] * b[2] - b[1] * a[2], a[2] * b[2]>>

RAbs(a) == IF a[1] < 0 THEN <<0 - a[1], a[2]>> ELSE a

RMul(a, b) == <<a[1] * b[1], a[2] * b[2]>>

(* a / b for b > 0.                                                        *)
RDiv(a, b) == <<a[1] * b[2], a[2] * b[1]>>

(* Python's min(a, b) and max(a, b): the first argument wins a tie.        *)
RMin(a, b) == IF RLt(b, a) THEN b ELSE a

RMax(a, b) == IF RLt(a, b) THEN b ELSE a

----------------------------------------------------------------------------
(* adjust_audio_duration: the tempo policy.                                *)

(* The literals 1.0, 0.05, 0.5 and 2.0 of adjust_audio_duration.           *)
One == Rat(1, 1)

(* A tolerance of 10% instead of 5%.                                       *)
ToleranceWide == Rat(1, 10)

Tolerance == Rat(1, 20)

MinTempo == Rat(1, 2)

MaxTempo == Rat(2, 1)

(* speed_factor = current_duration / target_duration, target_duration # 0. *)
SpeedFactor(current_duration, target_duration) ==
    Rat(current_duration, target_duration)

(* The comparison written <= instead of <.                                 *)
NoAdjustmentNeededInclusive(speed_factor) ==
    RLe(RAbs(RSub(speed_factor, Rat(1, 1))), Rat(1, 20))

(* abs(speed_factor - 1.0) < 0.05                                          *)
NoAdjustmentNeeded(speed_factor) ==
    RLt(RAbs(RSub(speed_factor, One)), Tolerance)

(* 0.5 <= speed_factor <= 2.0                                              *)
WithinSingleRange(speed_factor) ==
    RLe(MinTempo, speed_factor) /\ RLe(speed_factor, MaxTempo)

(* The second factor taken with max instead of min.                        *)
SpeedUpPlanMax(speed_factor) ==
    LET factor1 == RMin(speed_factor, MaxTempo)
        remaining_factor == RDiv(speed_factor, factor1)
    IN  IF RLt(One, remaining_factor)
        THEN <<factor1, RMax(remaining_factor, MaxTempo)>>
        ELSE <<factor1>>

(* The second factor not clamped to 2.0.                                   *)
SpeedUpPlanUnclamped(speed_factor) ==
    LET factor1 == RMin(speed_factor, MaxTempo)
        remaining_factor == RDiv(speed_factor, factor1)
    IN  IF RLt(One, remaining_factor)
        THEN <<factor1, remaining_factor>>
        ELSE <<factor1>>

(* A third filter chained for what two filters leave over.                 *)
SpeedUpPlanThree(speed_factor) ==
    LET factor1 == RMin(speed_factor, MaxTempo)
        remaining_factor == RDiv(speed_factor, factor1)
        factor2 == RMin(remaining_factor, MaxTempo)
        left_over == RDiv(remaining_factor, factor2)
    IN  IF RLt(One, left_over)
        THEN <<factor1, factor2, RMin(left_over, MaxTempo)>>
        ELSE IF RLt(One, remaining_factor)
        THEN <<factor1, factor2>>
        ELSE <<factor1>>

(* The second filter chained only for what exceeds 2.0 again.              *)
SpeedUpPlanFallback(speed_factor) ==
    LET factor1 == RMin(speed_factor, MaxTempo)
        remaining_factor == RDiv(speed_factor, factor1)
    IN  IF RLt(MaxTempo, remaining_factor)
        THEN <<factor1, RMin(remaining_factor, MaxTempo)>>
        ELSE <<factor1>>

(* The branch speed_factor > 2.0: the atempo filters of the chain.         *)
SpeedUpPlan(speed_factor) ==
    LET factor1 == RMin(speed_factor, MaxTempo)
        remaining_factor == RDiv(speed_factor, factor1)
    IN  IF RLt(One, remaining_factor)
        THEN <<factor1, RMin(remaining_factor, MaxTempo)>>
        ELSE <<factor1>>

(* The slow-down branch written with min, as the speed-up branch is.       *)
SlowDownPlanMin(speed_factor) ==
    LET factor1 == RMin(speed_factor, MinTempo)
        remaining_factor ==
            IF factor1[1] = 0 THEN One ELSE RDiv(speed_factor, factor1)
    IN  IF RLt(remaining_factor, One)
        THEN <<factor1, RMin(remaining_factor, MinTempo)>>
        ELSE <<factor1>>

(* The branch speed_factor < 0.5.                                          *)
SlowDownPlan(speed_factor) ==
    LET factor1 == RMax(speed_factor, MinTempo)
        remaining_factor == RDiv(speed_factor, factor1)
    IN  IF RLt(remaining_factor, One)
        THEN <<factor1, RMax(remaining_factor, MinTempo)>>
        ELSE <<factor1>>

(* Which of the three branches of the if / elif / else is taken.           *)
Policy(speed_factor) ==
    IF NoAdjustmentNeeded(speed_factor) THEN "copy"
    ELSE IF WithinSingleRange(speed_factor) THEN "single"
    ELSE "chained"

(* The near-identity branch left out.                                      *)
TempoPlanNoCopy(speed_factor) ==
    IF WithinSingleRange(speed_factor) THEN <<speed_factor>>
    ELSE IF RLt(MaxTempo, speed_factor) THEN SpeedUpPlan(speed_factor)
    ELSE SlowDownPlan(speed_factor)

(* The single step applied with target / current instead of                *)
(* current / target.                                                       *)
TempoPlanReciprocal(speed_factor) ==
    IF NoAdjustmentNeeded(speed_factor) THEN <<>>
    ELSE IF WithinSingleRange(speed_factor)
    THEN <<RDiv(One, speed_factor)>>
    ELSE IF RLt(MaxTempo, speed_factor) THEN SpeedUpPlan(speed_factor)
    ELSE SlowDownPlan(speed_factor)

(* The sequence of atempo factors of the ffmpeg command that is run.       *)
TempoPlan(speed_factor) ==
    IF NoAdjustmentNeeded(speed_factor) THEN <<>>
    ELSE IF WithinSingleRange(speed_factor) THEN <<speed_factor>>
    ELSE IF RLt(MaxTempo, speed_factor) THEN SpeedUpPlan(speed_factor)
    ELSE SlowDownPlan(speed_factor)

RECURSIVE Product(_)
Product(factors) ==
    IF factors = <<>> THEN One
    ELSE RMul(Head(factors), Product(Tail(factors)))

(* Each filter taken to stretch the duration by its factor.                *)
ReconciledDurationTimes(current_duration, factors) ==
    RMul(Rat(current_duration, 1), Product(factors))

(* Duration of the output of the filter chain: each atempo filter divides  *)
(* the duration by its factor, and acodec=copy leaves it as it is.         *)
ReconciledDuration(current_duration, factors) ==
    RDiv(Rat(current_duration, 1), Product(factors))

----------------------------------------------------------------------------
(* translate_video: the state of one call.                                 *)

VARIABLES
    args,                   \* the arguments of the call and what they name
    eleven_client,          \* self.eleven_client is not None
    input_file,             \* the caller's local input video on disk
    pc,                     \* the orchestrator's state
    calls,                  \* the component calls made, in order
    completed,              \* the component calls that returned, in order
    original_duration,      \* get_video_duration(input_video), -1 before
    hindi_duration,         \* duration of hindi_audio.mp3, -1 before
    target_duration,        \* the target adjust_audio_duration was given
    policy,                 \* the branch adjust_audio_duration took
    plan,                   \* the atempo factors it applied, in order
    adjusted_duration,      \* duration of adjusted_hindi_audio.mp3
    compositor,             \* which of replace_audio / mix_audio ran
    composed_audio,         \* the speech track handed to the compositor
    temp_dir,               \* the TemporaryDirectory of the call
    temp_files_to_cleanup,  \* downloads made outside the temp directory
    debug_saved,            \* the debug directory was written
    result,                 \* how the call ended
    error,                  \* the kind of exception the call raised
    workspace_files,        \* the files inside the temporary directory
    outside_files,          \* the files the call made outside of it
    debug_files,            \* the artifacts copied to the debug directory
    media,                  \* the streams and gains given to a compositor
    output,                 \* the streams of the video it wrote
    input_source,           \* the string given to is_youtube_url
    url_class,              \* what is_youtube_url made of it
    cli,                    \* the command line main() parsed
    gui,                    \* the window of video_translator_gui.py
    http,                   \* the globals and requests of workflow/app.py
    pair                    \* two translate_video calls side by side

vars == <<args, eleven_client, input_file, pc, calls, completed, original_duration,
          hindi_duration, target_duration, policy, plan, adjusted_duration,
          compositor, composed_audio, temp_dir, temp_files_to_cleanup,
          debug_saved, result, error, workspace_files, outside_files,
          debug_files, media, output, input_source, url_class, cli, gui,
          http, pair>>

(* The component calls of the try block, in the order of the source.       *)
StageOrder ==
    <<"probe", "extract", "transcribe", "translate", "synthesize",
      "reconcile", "compose">>

NoDuration == <<0, 0>>

Providers == {"openai", "elevenlabs", "other"}

(* What output_video names: a file of its own, the input video by the very *)
(* string given as input_source, or the input video by another spelling of *)
(* its path (./video.mp4 for video.mp4, an absolute path, a link).         *)
OutputPaths == {"other", "input_path", "input_alias"}

(* The arguments of translate_video that decide its control flow.  An      *)
(* output_video that names the input is looked at for an existing local    *)
(* input.                                                                  *)
Arguments ==
    { a \in [ is_youtube_url       : BOOLEAN, \* is_youtube_url(input_source)
              input_exists         : BOOLEAN, \* Path(input_source).exists()
              youtube_download_dir : BOOLEAN, \* youtube_download_dir given
              keep_temp_files      : BOOLEAN,
              mix_with_background  : BOOLEAN,
              tts_provider         : Providers,
              output_video         : OutputPaths ] :
          (a.is_youtube_url \/ ~a.input_exists) => a.output_video = "other" }

(* The caller's input video before the call: there is none for a YouTube   *)
(* source or a path that does not exist.                                   *)
InputFileAtStart ==
    IF ~args.is_youtube_url /\ args.input_exists THEN "intact" ELSE "missing"

(* No streams: the value of media and output where no compositor is       *)
(* looked into.                                                            *)
NoMedia == <<>>

(* No command line, no window, no server, no second call: the values of    *)
(* cli, gui, http and pair where these are not looked into.                *)
NoCli == <<>>

NoGui == <<>>

NoHttp == <<>>

NoPair == <<>>

Elsewhere ==
    /\ cli = NoCli
    /\ gui = NoGui
    /\ http = NoHttp
    /\ pair = NoPair

(* A call has not started: nothing is probed, nothing is written.          *)
NoCall ==
    /\ calls = <<>>
    /\ completed = <<>>
    /\ original_duration = -1
    /\ hindi_duration = -1
    /\ target_duration = -1
    /\ policy = "none"
    /\ plan = <<>>
    /\ adjusted_duration = NoDuration
    /\ compositor = "none"
    /\ composed_audio = "none"
    /\ temp_dir = "none"
    /\ temp_files_to_cleanup = {}
    /\ debug_saved = FALSE
    /\ result = "none"
    /\ error = "none"
    /\ workspace_files = {}
    /\ outside_files = {}
    /\ debug_files = {}

Fresh ==
    /\ NoCall
    /\ media = NoMedia
    /\ output = NoMedia
    /\ input_source = <<>>
    /\ url_class = "unknown"
    /\ Elsewhere

Init ==
    /\ args \in Arguments
    /\ eleven_client \in BOOLEAN
    /\ input_file = InputFileAtStart
    /\ pc = "entry"
    /\ Fresh

(* Groups of variables the steps leave alone.                              *)
callVars == <<args, eleven_client, input_file>>

reconcileVars == <<target_duration, policy, plan, adjusted_duration>>

composeVars == <<compositor, composed_audio>>

fileVars == <<temp_dir, temp_files_to_cleanup, debug_saved>>

diskVars == <<workspace_files, outside_files, debug_files>>

(* The operands and results of the operations explored on their own.      *)
operandVars == <<media, output, input_source, url_class, cli, gui, http,
                 pair>>

(* A component is called; it returns and the next statement runs, or it    *)
(* raises and control passes to the except clause of the try block.        *)
Called(stage) == calls' = Append(calls, stage)

Returned(stage, next) ==
    /\ completed' = Append(completed, stage)
    /\ pc' = next

Raised ==
    /\ completed' = completed
    /\ pc' = "Failed"

----------------------------------------------------------------------------
(* translate_video, before the try block.                                  *)

(* The exception a failing step raises.                                    *)
Threw(kind) == error' = kind

(* A failing writer may leave a partial file in the temporary directory.   *)
MayLeave(file) ==
    workspace_files' \in {workspace_files, workspace_files \cup {file}}

(* with tempfile.TemporaryDirectory() as temp_dir                          *)
EnterTempDir ==
    /\ pc = "entry"
    /\ temp_dir' = "open"
    /\ pc' = "acquire"
    /\ UNCHANGED <<callVars, calls, completed, original_duration,
                   hindi_duration, reconcileVars, composeVars,
                   temp_files_to_cleanup, debug_saved, result, error,
                   diskVars, operandVars>>

(* The with statement left without removing the temporary directory.       *)
RaiseBeforeTryLeak ==
    /\ pc' = "Failed"
    /\ temp_dir' = "open"
    /\ workspace_files' = workspace_files
    /\ result' = "raised"

(* An exception outside the try block leaves the with statement, which     *)
(* removes the temporary directory; the finally clause does not run.       *)
RaiseBeforeTry ==
    /\ pc' = "Failed"
    /\ temp_dir' = "released"
    /\ workspace_files' = {}
    /\ result' = "raised"

(* The existence check of the local path left out.                         *)
AcquireSourceNoCheck ==
    /\ pc = "acquire"
    /\ \/ /\ args.is_youtube_url
          /\ \/ /\ pc' = "setup"
                /\ temp_files_to_cleanup' =
                       IF args.youtube_download_dir
                       THEN {"input_video"} ELSE {}
                /\ IF args.youtube_download_dir
                   THEN /\ outside_files' = {"downloaded_video"}
                        /\ UNCHANGED workspace_files
                   ELSE /\ workspace_files' = {"downloaded_video"}
                        /\ UNCHANGED outside_files
                /\ UNCHANGED <<temp_dir, result, error>>
             \/ /\ RaiseBeforeTry
                /\ Threw("acquisition")
                /\ UNCHANGED <<temp_files_to_cleanup, outside_files>>
       \/ /\ ~args.is_youtube_url
          /\ pc' = "setup"
          /\ UNCHANGED <<temp_dir, result, error, workspace_files,
                         temp_files_to_cleanup, outside_files>>
    /\ UNCHANGED <<callVars, calls, completed, original_duration,
                   hindi_duration, reconcileVars, composeVars, debug_saved,
                   debug_files, operandVars>>

(* The YouTube download, or the existence check of a local path.           *)
AcquireSource ==
    /\ pc = "acquire"
    /\ \/ /\ args.is_youtube_url
          /\ \/ /\ pc' = "setup"
                /\ temp_files_to_cleanup' =
                       IF args.youtube_download_dir
                       THEN {"input_video"} ELSE {}
                /\ IF args.youtube_download_dir
                   THEN /\ outside_files' = {"downloaded_video"}
                        /\ UNCHANGED workspace_files
                   ELSE /\ workspace_files' = {"downloaded_video"}
                        /\ UNCHANGED outside_files
                /\ UNCHANGED <<temp_dir, result, error>>
             \/ /\ RaiseBeforeTry
                /\ Threw("acquisition")
                /\ UNCHANGED <<temp_files_to_cleanup, outside_files>>
       \/ /\ ~args.is_youtube_url
          /\ IF args.input_exists
             THEN /\ pc' = "setup"
                  /\ UNCHANGED <<temp_dir, result, error, workspace_files>>
             ELSE /\ RaiseBeforeTry
                  /\ Threw("file_not_found")
          /\ UNCHANGED <<temp_files_to_cleanup, outside_files>>
    /\ UNCHANGED <<callVars, calls, completed, original_duration,
                   hindi_duration, reconcileVars, composeVars, debug_saved,
                   debug_files, operandVars>>

(* generate_output_filename and the mkdir of the output directory.         *)
PrepareOutput ==
    /\ pc = "setup"
    /\ \/ /\ pc' = "Start"
          /\ outside_files' = outside_files \cup {"output_dir"}
          /\ UNCHANGED <<temp_dir, result, error, workspace_files>>
       \/ /\ RaiseBeforeTry
          /\ Threw("output_dir")
          /\ UNCHANGED outside_files
    /\ UNCHANGED <<callVars, calls, completed, original_duration,
                   hindi_duration, reconcileVars, composeVars,
                   temp_files_to_cleanup, debug_saved, debug_files,
                   operandVars>>

----------------------------------------------------------------------------
(* The try block: one action per component call.                           *)

(* Step 1: original_duration = self.get_video_duration(input_video)        *)
GetVideoDuration ==
    /\ pc = "Start"
    /\ Called("probe")
    /\ \/ /\ \E d \in 0..PipeMaxDuration : original_duration' = d
          /\ Returned("probe", "Probed")
          /\ UNCHANGED error
       \/ /\ Raised
          /\ Threw("probe")
          /\ UNCHANGED original_duration
    /\ UNCHANGED <<callVars, hindi_duration, reconcileVars, composeVars,
                   fileVars, result, diskVars, operandVars>>

(* Step 2: self.extract_audio(input_video, extracted_audio)                *)
ExtractAudio ==
    /\ pc = "Probed"
    /\ Called("extract")
    /\ \/ /\ Returned("extract", "Extracted")
          /\ workspace_files' = workspace_files \cup {"extracted_audio"}
          /\ UNCHANGED error
       \/ /\ Raised
          /\ Threw("extraction")
          /\ MayLeave("extracted_audio")
    /\ UNCHANGED <<callVars, original_duration, hindi_duration,
                   reconcileVars, composeVars, fileVars, result,
                   outside_files, debug_files, operandVars>>

(* A failed transcription asked for once more.                             *)
TranscribeAudioRetry ==
    /\ pc = "Extracted"
    /\ Called("transcribe")
    /\ \/ /\ Returned("transcribe", "Transcribed")
          /\ UNCHANGED error
       \/ /\ "transcribe" \in {calls[i] : i \in 1..Len(calls)}
          /\ Raised
          /\ Threw("transcription")
       \/ /\ "transcribe" \notin {calls[i] : i \in 1..Len(calls)}
          /\ UNCHANGED <<completed, pc, error>>
    /\ UNCHANGED <<callVars, original_duration, hindi_duration,
                   reconcileVars, composeVars, fileVars, result, diskVars,
                   operandVars>>

(* Step 3: english_text = self.transcribe_audio(extracted_audio)           *)
TranscribeAudio ==
    /\ pc = "Extracted"
    /\ Called("transcribe")
    /\ \/ /\ Returned("transcribe", "Transcribed")
          /\ UNCHANGED error
       \/ /\ Raised
          /\ Threw("transcription")
    /\ UNCHANGED <<callVars, original_duration, hindi_duration,
                   reconcileVars, composeVars, fileVars, result, diskVars,
                   operandVars>>

(* The translation called on the extracted audio, before the transcript.   *)
TranslateTextEarly ==
    /\ pc \in {"Extracted", "Transcribed"}
    /\ Called("translate")
    /\ \/ /\ Returned("translate", "Translated")
          /\ UNCHANGED error
       \/ /\ Raised
          /\ Threw("translation")
    /\ UNCHANGED <<callVars, original_duration, hindi_duration,
                   reconcileVars, composeVars, fileVars, result, diskVars,
                   operandVars>>

(* Step 4: translated_text = self.translate_text(english_text, language)   *)
TranslateText ==
    /\ pc = "Transcribed"
    /\ Called("translate")
    /\ \/ /\ Returned("translate", "Translated")
          /\ UNCHANGED error
       \/ /\ Raised
          /\ Threw("translation")
    /\ UNCHANGED <<callVars, original_duration, hindi_duration,
                   reconcileVars, composeVars, fileVars, result, diskVars,
                   operandVars>>

(* The ElevenLabs client demanded whichever provider is selected.          *)
ProviderErrorStrict ==
    IF ~eleven_client THEN "credential"
    ELSE IF args.tts_provider \in {"openai", "elevenlabs"} THEN "none"
    ELSE "unsupported_provider"

(* The ValueError text_to_speech raises before it asks any provider:       *)
(* "ElevenLabs client not initialized" or "Unsupported TTS provider".      *)
ProviderError ==
    IF args.tts_provider = "openai" THEN "none"
    ELSE IF args.tts_provider = "elevenlabs"
    THEN (IF eleven_client THEN "none" ELSE "credential")
    ELSE "unsupported_provider"

(* text_to_speech reaches a provider that can be asked for audio.          *)
ProviderAvailable ==
    \/ args.tts_provider = "openai"
    \/ args.tts_provider = "elevenlabs" /\ eleven_client

(* Step 5: self.text_to_speech(translated_text, hindi_audio, voice, ...)   *)
TextToSpeech ==
    /\ pc = "Translated"
    /\ Called("synthesize")
    /\ \/ \* the provider answers and the audio is written
          /\ ProviderAvailable
          /\ ProviderError = "none"
          /\ \E d \in 0..PipeMaxDuration : hindi_duration' = d
          /\ Returned("synthesize", "Synthesized")
          /\ workspace_files' = workspace_files \cup {"hindi_audio"}
          /\ UNCHANGED error
       \/ \* the request fails, or the write of the audio does
          /\ ProviderError = "none"
          /\ Raised
          /\ Threw("synthesis")
          /\ MayLeave("hindi_audio")
          /\ UNCHANGED hindi_duration
       \/ \* no such provider, or no client for it
          /\ ProviderError # "none"
          /\ Raised
          /\ Threw(ProviderError)
          /\ UNCHANGED <<hindi_duration, workspace_files>>
    /\ UNCHANGED <<callVars, original_duration, reconcileVars, composeVars,
                   fileVars, result, outside_files, debug_files, operandVars>>

(* The target the orchestrator hands to adjust_audio_duration.             *)
ReconcileTarget == original_duration

(* Step 6: self.adjust_audio_duration(hindi_audio, adjusted_hindi_audio,   *)
(* original_duration). The input is probed, the speed factor computed, one *)
(* ffmpeg command built from the branch taken and run, the output probed.  *)
AdjustAudioDuration ==
    /\ pc = "Synthesized"
    /\ Called("reconcile")
    /\ target_duration' = ReconcileTarget
    /\ \/ \* get_audio_duration(input_audio_path) raises
          /\ Raised
          /\ Threw("reconciliation")
          /\ UNCHANGED <<policy, plan, adjusted_duration, workspace_files>>
       \/ \* current_duration / target_duration raises ZeroDivisionError
          /\ target_duration' = 0
          /\ Raised
          /\ Threw("reconciliation")
          /\ UNCHANGED <<policy, plan, adjusted_duration, workspace_files>>
       \/ /\ target_duration' # 0
          /\ LET speed_factor == SpeedFactor(hindi_duration, target_duration')
             IN  /\ policy' = Policy(speed_factor)
                 /\ plan' = TempoPlan(speed_factor)
          /\ \/ \* the ffmpeg command and the final probe succeed
                /\ adjusted_duration' =
                       ReconciledDuration(hindi_duration, plan')
                /\ Returned("reconcile", "Reconciled")
                /\ workspace_files' =
                       workspace_files \cup {"adjusted_hindi_audio"}
                /\ UNCHANGED error
             \/ \* ffmpeg.Error, or the final probe raises
                /\ Raised
                /\ Threw("reconciliation")
                /\ MayLeave("adjusted_hindi_audio")
                /\ UNCHANGED adjusted_duration
    /\ UNCHANGED <<callVars, original_duration, hindi_duration, composeVars,
                   fileVars, result, outside_files, debug_files, operandVars>>

(* The flag read the wrong way round.                                      *)
SelectedCompositorSwapped ==
    IF args.mix_with_background THEN "replace" ELSE "mix"

(* The compositor the orchestrator selects.                                *)
SelectedCompositor == IF args.mix_with_background THEN "mix" ELSE "replace"

(* The speech track the orchestrator hands to the compositor.              *)
SpeechForCompose == "adjusted_hindi_audio"

(* ffmpeg run with overwrite_output() truncates the file its output path   *)
(* names when it opens it.                                                 *)
OverwrittenBy(output_video) ==
    IF output_video = "other" THEN input_file ELSE "overwritten"

(* Step 7: mix_audio_with_background or replace_audio on the adjusted      *)
(* speech, written to output_video.                                        *)
ComposeOutput ==
    /\ pc = "Reconciled"
    /\ Called("compose")
    /\ compositor' = SelectedCompositor
    /\ composed_audio' = SpeechForCompose
    /\ \/ \* ffmpeg wrote the output
          /\ args.output_video # "input_path"
          /\ Returned("compose", "Composed")
          /\ outside_files' = outside_files \cup {"output_video"}
          /\ input_file' = OverwrittenBy(args.output_video)
          /\ UNCHANGED error
       \/ \* ffmpeg.Error, before or after it opened the output
          /\ args.output_video # "input_path"
          /\ Raised
          /\ Threw("composition")
          /\ \/ UNCHANGED <<outside_files, input_file>>
             \/ /\ outside_files' = outside_files \cup {"output_video"}
                /\ input_file' = OverwrittenBy(args.output_video)
       \/ \* ffmpeg refuses an output named exactly as one of its inputs
          /\ args.output_video = "input_path"
          /\ Raised
          /\ Threw("composition")
          /\ UNCHANGED <<outside_files, input_file>>
    /\ UNCHANGED <<args, eleven_client, original_duration, hindi_duration,
                   reconcileVars, fileVars, result, workspace_files,
                   debug_files, operandVars>>

(* The artifacts of the debug directory, in the order they are written;    *)
(* the downloaded video is added for a YouTube source kept in the          *)
(* temporary directory.                                                    *)
DebugOrder ==
    <<"extracted_audio", "audio_original", "audio_adjusted",
      "english_transcript", "translation", "video_info">>
    \o (IF args.is_youtube_url /\ ~args.youtube_download_dir
        THEN <<"original_video">> ELSE <<>>)

DebugWritten(k) == {DebugOrder[i] : i \in 1..k}

(* The debug directory written whether or not it was asked for.            *)
SaveDebugFilesAlways ==
    /\ pc = "Composed"
    /\ \/ /\ debug_saved' = TRUE
          /\ debug_files' = DebugWritten(Len(DebugOrder))
          /\ pc' = "Done"
          /\ UNCHANGED error
       \/ /\ \E k \in 0..(Len(DebugOrder) - 1) :
                /\ debug_files' = DebugWritten(k)
                /\ debug_saved' \in (IF k = 0 THEN BOOLEAN ELSE {TRUE})
          /\ pc' = "Failed"
          /\ Threw("debug")
    /\ UNCHANGED <<callVars, calls, completed, original_duration,
                   hindi_duration, reconcileVars, composeVars, temp_dir,
                   temp_files_to_cleanup, result, workspace_files,
                   outside_files, operandVars>>

(* keep_temp_files: the debug directory is written, then return.           *)
SaveDebugFiles ==
    /\ pc = "Composed"
    /\ args.keep_temp_files
    /\ \/ /\ debug_saved' = TRUE
          /\ debug_files' = DebugWritten(Len(DebugOrder))
          /\ pc' = "Done"
          /\ UNCHANGED error
       \/ /\ \E k \in 0..(Len(DebugOrder) - 1) :
                /\ debug_files' = DebugWritten(k)
                /\ debug_saved' \in (IF k = 0 THEN BOOLEAN ELSE {TRUE})
          /\ pc' = "Failed"
          /\ Threw("debug")
    /\ UNCHANGED <<callVars, calls, completed, original_duration,
                   hindi_duration, reconcileVars, composeVars, temp_dir,
                   temp_files_to_cleanup, result, workspace_files,
                   outside_files, operandVars>>

(* return output_video                                                     *)
ReturnOutput ==
    /\ pc = "Composed"
    /\ ~args.keep_temp_files
    /\ pc' = "Done"
    /\ UNCHANGED <<callVars, calls, completed, original_duration,
                   hindi_duration, reconcileVars, composeVars, fileVars,
                   result, error, diskVars, operandVars>>

(* The except clause logging the error without raising it again.           *)
OutcomeSwallowed == "returned"

(* How the call ends once the try block is left: the except clause         *)
(* re-raises, a return returns.                                            *)
Outcome == IF pc = "Done" THEN "returned" ELSE "raised"

(* _cleanup_temp_files(temp_files_to_cleanup): the download made outside   *)
(* the temporary directory is removed.                                     *)
AfterCleanup(files) ==
    IF temp_files_to_cleanup = {} THEN files
    ELSE files \ {"downloaded_video"}

(* except (log and re-raise), finally (_cleanup_temp_files), and the exit  *)
(* of the with statement, which removes the temporary directory.           *)
LeaveTry ==
    /\ pc \in {"Done", "Failed"}
    /\ result = "none"
    /\ temp_dir' = "released"
    /\ workspace_files' = {}
    /\ outside_files' = AfterCleanup(outside_files)
    /\ result' = Outcome
    /\ UNCHANGED <<callVars, pc, calls, completed, original_duration,
                   hindi_duration, reconcileVars, composeVars,
                   temp_files_to_cleanup, debug_saved, error, debug_files,
                   operandVars>>

Next ==
    \/ EnterTempDir
    \/ AcquireSource
    \/ PrepareOutput
    \/ GetVideoDuration
    \/ ExtractAudio
    \/ TranscribeAudio
    \/ TranslateText
    \/ TextToSpeech
    \/ AdjustAudioDuration
    \/ ComposeOutput
    \/ SaveDebugFiles
    \/ ReturnOutput
    \/ LeaveTry

Spec == Init /\ [][Next]_vars

----------------------------------------------------------------------------
(* adjust_audio_duration explored alone: a call that has synthesized a     *)
(* speech track of any duration for a video of any duration.               *)

InitReconcile ==
    /\ args \in Arguments
    /\ args.input_exists /\ ~args.is_youtube_url
    /\ ~args.youtube_download_dir /\ ~args.keep_temp_files
    /\ args.tts_provider = "openai"
    /\ args.output_video = "other"
    /\ eleven_client = FALSE
    /\ input_file = InputFileAtStart
    /\ pc = "Synthesized"
    /\ calls = SubSeq(StageOrder, 1, 5)
    /\ completed = SubSeq(StageOrder, 1, 5)
    /\ original_duration \in 0..MaxDuration
    /\ hindi_duration \in 0..MaxDuration
    /\ target_duration = -1
    /\ policy = "none"
    /\ plan = <<>>
    /\ adjusted_duration = NoDuration
    /\ compositor = "none"
    /\ composed_audio = "none"
    /\ temp_dir = "open"
    /\ temp_files_to_cleanup = {}
    /\ debug_saved = FALSE
    /\ result = "none"
    /\ error = "none"
    /\ workspace_files = {"extracted_audio", "hindi_audio"}
    /\ outside_files = {"output_dir"}
    /\ debug_files = {}
    /\ media = NoMedia
    /\ output = NoMedia
    /\ input_source = <<>>
    /\ url_class = "unknown"
    /\ Elsewhere

NextReconcile == AdjustAudioDuration

SpecReconcile == InitReconcile /\ [][NextReconcile]_vars

----------------------------------------------------------------------------
(* Properties of adjust_audio_duration, checked under SpecReconcile.       *)
(* With c = hindi_duration and t = target_duration > 0 the speed factor is *)
(* c / t, so that  abs(c/t - 1) < 0.05  is  20 * |c - t| < t,              *)
(* 0.5 <= c/t <= 2.0  is  t <= 2c /\ c <= 2t,  and so on.                  *)

(* adjust_audio_duration chose a branch and built its ffmpeg command.      *)
PlanBuilt == policy # "none"

(* adjust_audio_duration returned: the adjusted audio exists.              *)
Adjusted == adjusted_duration # NoDuration

Distance(a, b) == IF a < b THEN b - a ELSE a - b

InBand == 20 * Distance(hindi_duration, target_duration) < target_duration

InSingleRange ==
    /\ target_duration <= 2 * hindi_duration
    /\ hindi_duration <= 2 * target_duration

AboveRange == hindi_duration > 2 * target_duration

BelowRange == 2 * hindi_duration < target_duration

(* The product of the applied factors is the speed factor c / t.           *)
ProductIsRatio == REq(Product(plan), Rat(hindi_duration, target_duration))

(* abs(adjusted - t) / t < 0.05 for adjusted = n / d.                      *)
WithinFivePercent ==
    20 * Distance(adjusted_duration[1],
                  target_duration * adjusted_duration[2])
        < target_duration * adjusted_duration[2]

(* C1: for every current duration and every target duration > 0 exactly    *)
(* one policy is selected: the plain copy (no tempo step) iff              *)
(* abs(speedFactor - 1.0) < 0.05; one tempo step iff speedFactor is in     *)
(* [0.5, 2.0] and outside that band; the chained policy iff                *)
(* speedFactor > 2.0 or speedFactor < 0.5.                                 *)
C1_PolicySelection ==
    PlanBuilt =>
        /\ target_duration > 0
        /\ policy \in {"copy", "single", "chained"}
        /\ (policy = "copy") <=> InBand
        /\ (policy = "copy") <=> (plan = <<>>)
        /\ (policy = "single") <=> (InSingleRange /\ ~InBand)
        /\ (policy = "single") => Len(plan) = 1
        /\ (policy = "chained") <=> (AboveRange \/ BelowRange)

(* The three policies are each taken by some pair of durations.            *)
C1_Witness ==
    /\ Adjusted
    /\ policy = "single"
    /\ hindi_duration = 21
    /\ target_duration = 20

(* C2 as stated: for every speedFactor in the closed interval              *)
(* [0.95, 1.05] the no-op path is taken, no tempo step is applied and the  *)
(* returned audio has the duration of the input.                           *)
C2_ClosedBandIsNoOp ==
    (/\ Adjusted
     /\ 19 * target_duration <= 20 * hindi_duration
     /\ 20 * hindi_duration <= 21 * target_duration)
        => /\ policy = "copy"
           /\ plan = <<>>
           /\ REq(adjusted_duration, Rat(hindi_duration, 1))

(* C2 amended: for every speedFactor strictly between 0.95 and 1.05 the    *)
(* no-op path is taken, no tempo step is applied and the returned audio    *)
(* has the duration of the input; at 0.95 and at 1.05 one tempo step is    *)
(* applied.                                                                *)
C2_OpenBandIsNoOp ==
    /\ (/\ Adjusted
        /\ 19 * target_duration < 20 * hindi_duration
        /\ 20 * hindi_duration < 21 * target_duration)
           => /\ policy = "copy"
              /\ plan = <<>>
              /\ REq(adjusted_duration, Rat(hindi_duration, 1))
    /\ (/\ Adjusted
        /\ \/ 19 * target_duration = 20 * hindi_duration
           \/ 20 * hindi_duration = 21 * target_duration)
           => /\ policy = "single"
              /\ Len(plan) = 1

(* A speech track inside the band and not equal to the target.             *)
C2_Witness ==
    /\ Adjusted
    /\ hindi_duration = 20
    /\ target_duration = 21
    /\ plan = <<>>

(* C3: for every speedFactor in [0.5, 2.0] outside the near-identity band  *)
(* the plan is exactly one tempo step whose factor equals speedFactor (14  *)
(* against 10 gives the single step 1.4), and the resulting duration is    *)
(* within the tolerance of the target.                                     *)
C3_SingleStep ==
    /\ (PlanBuilt /\ InSingleRange /\ ~InBand)
           => /\ Len(plan) = 1
              /\ REq(plan[1], Rat(hindi_duration, target_duration))
              /\ Adjusted => WithinFivePercent
    /\ (PlanBuilt /\ hindi_duration = 14 /\ target_duration = 10)
           => /\ Len(plan) = 1
              /\ REq(plan[1], Rat(7, 5))

C3_Witness ==
    /\ Adjusted
    /\ hindi_duration = 14
    /\ target_duration = 10
    /\ Len(plan) = 1
    /\ REq(adjusted_duration, Rat(10, 1))

(* C4: in the chained policy, for speedFactor > 2.0 the plan is            *)
(* factor1 = min(speedFactor, 2.0) followed, when remaining =              *)
(* speedFactor / factor1 > 1.0, by factor2 = min(remaining, 2.0); for      *)
(* speedFactor < 0.5 it is factor1 = max(speedFactor, 0.5) followed, when  *)
(* remaining < 1.0, by factor2 = max(remaining, 0.5). 3.0 gives [2.0, 1.5] *)
(* and 0.25 gives [0.5, 0.5], in that order.                               *)
C4_ChainedPlan ==
    /\ (PlanBuilt /\ AboveRange) =>
           /\ Len(plan) = 2
           /\ REq(plan[1], Rat(2, 1))
           /\ IF hindi_duration <= 4 * target_duration
              THEN REq(plan[2], Rat(hindi_duration, 2 * target_duration))
              ELSE REq(plan[2], Rat(2, 1))
    /\ (PlanBuilt /\ BelowRange) =>
           /\ Len(plan) = 2
           /\ REq(plan[1], Rat(1, 2))
           /\ IF 4 * hindi_duration >= target_duration
              THEN REq(plan[2], Rat(2 * hindi_duration, target_duration))
              ELSE REq(plan[2], Rat(1, 2))
    /\ (PlanBuilt /\ hindi_duration = 9 /\ target_duration = 3) =>
           /\ Len(plan) = 2
           /\ REq(plan[1], Rat(2, 1))
           /\ REq(plan[2], Rat(3, 2))
    /\ (PlanBuilt /\ hindi_duration = 3 /\ target_duration = 12) =>
           /\ Len(plan) = 2
           /\ REq(plan[1], Rat(1, 2))
           /\ REq(plan[2], Rat(1, 2))

C4_Witness ==
    /\ Adjusted
    /\ policy = "chained"
    /\ hindi_duration = 3
    /\ target_duration = 12
    /\ Len(plan) = 2

(* C5 as stated: for every plan built for a speedFactor outside the        *)
(* near-identity band the product of the step factors equals               *)
(* currentDuration / targetDuration (stated for speech of positive         *)
(* duration).                                                              *)
C5_ProductIsRatio ==
    (PlanBuilt /\ ~InBand /\ hindi_duration > 0) => ProductIsRatio

(* C5 amended: for every plan built for a speedFactor outside the          *)
(* near-identity band with 0.25 <= speedFactor <= 4.0 the product of the   *)
(* step factors equals currentDuration / targetDuration; for               *)
(* speedFactor > 4.0 the product is 4.0 and for speedFactor < 0.25 it is   *)
(* 0.25.                                                                   *)
C5_ProductIsRatioInReach ==
    /\ (/\ PlanBuilt /\ ~InBand
        /\ target_duration <= 4 * hindi_duration
        /\ hindi_duration <= 4 * target_duration) => ProductIsRatio
    /\ (PlanBuilt /\ hindi_duration > 4 * target_duration)
           => REq(Product(plan), Rat(4, 1))
    /\ (PlanBuilt /\ 4 * hindi_duration < target_duration)
           => REq(Product(plan), Rat(1, 4))

C5_Witness ==
    /\ Adjusted
    /\ policy = "chained"
    /\ hindi_duration = 7
    /\ target_duration = 2
    /\ Len(plan) = 2

(* C6: every tempo step applied, under any policy and for any positive     *)
(* speedFactor, has a factor in [0.5, 2.0].                                *)
C6_FactorsBounded ==
    PlanBuilt =>
        \A i \in 1..Len(plan) :
            /\ plan[i][2] > 0
            /\ plan[i][2] <= 2 * plan[i][1]
            /\ plan[i][1] <= 2 * plan[i][2]

C6_Witness ==
    /\ Adjusted
    /\ hindi_duration > 4 * target_duration
    /\ Len(plan) = 2
    /\ REq(plan[2], Rat(2, 1))

(* C7: for every speedFactor, however extreme, the plan has at most two    *)
(* tempo steps.                                                            *)
C7_AtMostTwoSteps == Len(plan) <= 2

C7_Witness ==
    /\ Adjusted
    /\ 5 * hindi_duration < target_duration
    /\ hindi_duration > 0
    /\ Len(plan) = 2

(* C8: whenever 0.25 <= speedFactor <= 4.0 the reconciled duration         *)
(* (the current duration divided by the product of the applied factors,    *)
(* or the current duration itself on the no-op path) is less than 5% of    *)
(* the target away from the target.                                        *)
C8_WithinTolerance ==
    (/\ Adjusted
     /\ target_duration <= 4 * hindi_duration
     /\ hindi_duration <= 4 * target_duration) => WithinFivePercent

(* The edge of the feasible range: 16 against 4 is speedFactor 4.0.        *)
C8_Witness ==
    /\ Adjusted
    /\ policy = "chained"
    /\ hindi_duration = 16
    /\ target_duration = 4
    /\ REq(adjusted_duration, Rat(4, 1))

----------------------------------------------------------------------------
(* Properties of translate_video, checked under Spec.                      *)

IsPrefix(a, b) == Len(a) <= Len(b) /\ a = SubSeq(b, 1, Len(a))

(* C9: within one call the stages run strictly in the order probe,         *)
(* extract, transcribe, translate, synthesize, reconcile, compose: a stage *)
(* starts only after the previous one has returned, none is skipped or run *)
(* out of order, and reconcile is given the probed duration of the input   *)
(* video as its target.                                                    *)
C9_StageOrder ==
    /\ IsPrefix(calls, StageOrder)
    /\ IsPrefix(completed, calls)
    /\ Len(calls) <= Len(completed) + 1
    /\ Len(calls) >= 6 =>
           /\ original_duration # -1
           /\ target_duration = original_duration
    /\ Len(calls) < 6 => target_duration = -1
    /\ pc = "Done" => completed = StageOrder

C9_Witness ==
    /\ result = "returned"
    /\ completed = StageOrder
    /\ target_duration = 3
    /\ hindi_duration = 2

(* C10: if any stage fails the call moves to Failed: no later stage is     *)
(* invoked, nothing is resumed, and the call raises instead of returning   *)
(* an output path; a path is returned only when compose has completed.     *)
C10_FailureAborts ==
    [][ /\ Len(calls') > Len(completed') => pc' = "Failed"
        /\ pc = "Failed" =>
               /\ pc' = "Failed"
               /\ calls' = calls
               /\ completed' = completed
        /\ (pc' = "Failed" /\ result' # "none") => result' = "raised"
        /\ result' = "returned" =>
               /\ pc' = "Done"
               /\ completed' = StageOrder ]_vars

(* The transcription failed and the call raised after two stages.          *)
C10_Witness ==
    /\ pc = "Failed"
    /\ result = "raised"
    /\ calls = SubSeq(StageOrder, 1, 3)
    /\ completed = SubSeq(StageOrder, 1, 2)
    /\ temp_dir = "released"

----------------------------------------------------------------------------
(* Properties of the workspace, the stages and the files of                *)
(* translate_video, checked under Spec.                                    *)

CallsOf(stage) == {i \in 1..Len(calls) : calls[i] = stage}

HasCompleted(stage) == \E i \in 1..Len(completed) : completed[i] = stage

(* A component call raised: it was made and did not return.                *)
StageFailed == Len(calls) > Len(completed)

(* C11: on every exit path the call itself observes (return, failed        *)
(* source acquisition or input validation, failed stage, failed write of   *)
(* the debug artifacts) the temporary workspace and every intermediate     *)
(* artifact in it has been released when the call ends.                    *)
C11_WorkspaceReleased ==
    result # "none" =>
        /\ temp_dir = "released"
        /\ workspace_files = {}

(* The call raised while writing the debug artifacts.                      *)
C11_Witness ==
    /\ result = "raised"
    /\ error = "debug"
    /\ debug_files # {}
    /\ temp_dir = "released"
    /\ workspace_files = {}

(* C13: within one call each remote service and each media transformation  *)
(* is invoked at most once: a failed call is never retried.                *)
C13_AtMostOnce ==
    /\ \A stage \in {StageOrder[i] : i \in 1..Len(StageOrder)} :
           Cardinality(CallsOf(stage)) <= 1
    /\ StageFailed => calls[Len(calls)] \notin
                          {completed[i] : i \in 1..Len(completed)}

(* The synthesis failed once and the call raised.                          *)
C13_Witness ==
    /\ result = "raised"
    /\ error = "synthesis"
    /\ Cardinality(CallsOf("synthesize")) = 1
    /\ ~HasCompleted("synthesize")

(* C14: an input that is no web-video URL is a local path checked for      *)
(* existence before the pipeline starts: if it does not exist the call     *)
(* raises at once, no stage has been invoked and no output directory or    *)
(* file has been created.                                                  *)
C14_MissingLocalInput ==
    (~args.is_youtube_url /\ ~args.input_exists) =>
        /\ calls = <<>>
        /\ outside_files = {}
        /\ debug_files = {}
        /\ pc \in {"entry", "acquire", "Failed"}
        /\ pc = "Failed" =>
               /\ result = "raised"
               /\ error = "file_not_found"

C14_Witness ==
    /\ ~args.is_youtube_url
    /\ ~args.input_exists
    /\ result = "raised"
    /\ error = "file_not_found"
    /\ temp_dir = "released"

(* C16: in every successful call exactly one compositor runs, after        *)
(* reconcile and on the reconciled speech: the mix when                    *)
(* mix_with_background is true, the replacement otherwise; never on the    *)
(* unreconciled synthesized speech.                                        *)
C16_OneCompositor ==
    /\ compositor # "none" =>
           /\ HasCompleted("reconcile")
           /\ adjusted_duration # NoDuration
           /\ composed_audio = "adjusted_hindi_audio"
           /\ compositor =
                  (IF args.mix_with_background THEN "mix" ELSE "replace")
    /\ result = "returned" =>
           /\ compositor \in {"mix", "replace"}
           /\ Cardinality(CallsOf("compose")) = 1
           /\ "output_video" \in outside_files

C16_Witness ==
    /\ result = "returned"
    /\ args.mix_with_background
    /\ compositor = "mix"
    /\ policy = "chained"

(* C19: text_to_speech fails with an unsupported-provider error when the   *)
(* provider has no implementation, with a credential error when the        *)
(* alternate provider is selected without its credential, and writes no    *)
(* audio in both cases; a missing alternate credential never fails the     *)
(* default provider.                                                       *)
C19_SynthesisErrors ==
    /\ (CallsOf("synthesize") # {}
        /\ args.tts_provider \notin {"openai", "elevenlabs"}) =>
           /\ error = "unsupported_provider"
           /\ pc = "Failed"
           /\ hindi_duration = -1
           /\ "hindi_audio" \notin workspace_files
    /\ (CallsOf("synthesize") # {}
        /\ args.tts_provider = "elevenlabs" /\ ~eleven_client) =>
           /\ error = "credential"
           /\ pc = "Failed"
           /\ hindi_duration = -1
           /\ "hindi_audio" \notin workspace_files
    /\ error = "unsupported_provider" =>
           args.tts_provider \notin {"openai", "elevenlabs"}
    /\ error = "credential" =>
           (args.tts_provider = "elevenlabs" /\ ~eleven_client)

(* The default provider synthesizes although no alternate credential was   *)
(* supplied.                                                               *)
C19_Witness ==
    /\ args.tts_provider = "openai"
    /\ ~eleven_client
    /\ HasCompleted("synthesize")
    /\ "hindi_audio" \in workspace_files

(* All six artifacts of the debug directory were written.                  *)
DebugComplete ==
    {"extracted_audio", "audio_original", "audio_adjusted",
     "english_transcript", "translation", "video_info"} \subseteq debug_files

(* C20 as stated: the debug artifacts are copied if and only if retention  *)
(* was requested and the compose stage succeeded, before the workspace is  *)
(* released, and none is written when a stage fails.                       *)
C20_DebugIffRequested ==
    [][ /\ result' # "none" =>
               (DebugComplete' <=>
                    (args.keep_temp_files /\ HasCompleted("compose")'))
        /\ debug_files' # debug_files =>
               (temp_dir = "open" /\ temp_dir' = "open")
        /\ StageFailed' => (debug_files' = {} /\ ~debug_saved') ]_vars

(* C20 amended: debug artifacts are written only if retention was          *)
(* requested and the compose stage succeeded, and before the workspace is  *)
(* released; when a stage fails none is written; a call that returns with  *)
(* retention requested has written all of them. When the write of the      *)
(* debug directory itself fails the call raises, with the artifacts        *)
(* written so far left in place.                                           *)
C20_DebugOnlyAfterCompose ==
    [][ /\ (debug_files' # {} \/ debug_saved') =>
               (args.keep_temp_files /\ completed' = StageOrder)
        /\ (result' = "returned" /\ args.keep_temp_files) => DebugComplete'
        /\ (result' = "raised" /\ completed' = StageOrder) =>
               /\ error' = "debug"
               /\ \E i \in 1..Len(DebugOrder) :
                      DebugOrder[i] \notin debug_files'
        /\ debug_files' # debug_files =>
               (temp_dir = "open" /\ temp_dir' = "open")
        /\ StageFailed' => (debug_files' = {} /\ ~debug_saved') ]_vars

C20_Witness ==
    /\ result = "returned"
    /\ args.keep_temp_files
    /\ DebugComplete
    /\ temp_dir = "released"

----------------------------------------------------------------------------
(* A call abandoned by its caller: translate_video runs in a worker        *)
(* thread, and the caller ends it the way cancel_translation and           *)
(* closeEvent of the GUI do, with QThread.terminate() and wait(). The      *)
(* thread stops where it is: no except or finally clause runs and no with  *)
(* statement is left.                                                      *)

(* self.worker_thread.isRunning(): the call has not ended.                 *)
WorkerRunning == result = "none"

(* self.worker_thread.terminate(); self.worker_thread.wait()               *)
TerminateWorker ==
    /\ pc' = "Terminated"
    /\ result' = "abandoned"
    /\ UNCHANGED <<callVars, calls, completed, original_duration,
                   hindi_duration, reconcileVars, composeVars, fileVars,
                   error, diskVars, operandVars>>

(* cancel_translation: a running worker is terminated; the buttons and the *)
(* progress bar are reset either way.                                      *)
CancelTranslation ==
    IF WorkerRunning THEN TerminateWorker ELSE UNCHANGED vars

(* closeEvent: with a running worker the user is asked; on Yes the worker  *)
(* is terminated, on No the event is ignored.                              *)
CloseEvent ==
    IF WorkerRunning
    THEN \E reply \in {"Yes", "No"} :
             IF reply = "Yes" THEN TerminateWorker ELSE UNCHANGED vars
    ELSE UNCHANGED vars

NextCancel ==
    \/ Next
    \/ CancelTranslation
    \/ CloseEvent

SpecCancel == Init /\ [][NextCancel]_vars

(* C12: when a caller abandons a running call at any state boundary, as    *)
(* the GUI does by terminating the worker thread, the abandoned call still *)
(* releases its temporary workspace.                                       *)
C12_AbandonedCallReleases ==
    result = "abandoned" =>
        /\ temp_dir # "open"
        /\ workspace_files = {}

----------------------------------------------------------------------------
(* is_youtube_url on its own.  A string is a sequence of tokens: each      *)
(* token is a piece of text the five patterns can tell apart, and "w" is   *)
(* any other text that begins with a character of the class [\w-]: a video *)
(* id, a word, a file name such as local_video.mp4.                        *)

MaxTokens == 5

Tokens == {"https://", "www.", "m.", "youtube.com", "YouTube.com", "youtu.be",
           "/watch?v=", "/embed/", "/shorts/", "/", "w"}

(* re.IGNORECASE: a token is compared in lower case.                       *)
Lower(token) == IF token = "YouTube.com" THEN "youtube.com" ELSE token

(* [\w-]+ matches as soon as the next character is a letter, a digit, an   *)
(* underscore or a hyphen, whatever follows that character.                *)
WordStart == {"https://", "http://", "www.", "m.", "youtube.com", "youtu.be",
              "w"}

Opt(tokens) == [kind |-> "opt", tokens |-> tokens]

Lit(token) == [kind |-> "lit", tokens |-> {token}]

Word == [kind |-> "word", tokens |-> WordStart]

Scheme == Opt({"https://", "http://"})

youtube_patternsDesktop ==
    << <<Scheme, Opt({"www."}), Lit("youtube.com"), Lit("/watch?v="), Word>>,
       <<Scheme, Opt({"www."}), Lit("youtu.be"), Lit("/"), Word>>,
       <<Scheme, Opt({"www."}), Lit("youtube.com"), Lit("/embed/"), Word>>,
       <<Scheme, Opt({"www."}), Lit("youtube.com"), Lit("/shorts/"), Word>> >>

youtube_patterns ==
    << <<Scheme, Opt({"www."}), Lit("youtube.com"), Lit("/watch?v="), Word>>,
       <<Scheme, Opt({"www."}), Lit("youtu.be"), Lit("/"), Word>>,
       <<Scheme, Opt({"www."}), Lit("youtube.com"), Lit("/embed/"), Word>>,
       <<Scheme, Opt({"m."}), Lit("youtube.com"), Lit("/watch?v="), Word>>,
       <<Scheme, Opt({"www."}), Lit("youtube.com"), Lit("/shorts/"), Word>> >>

(* re.match: the pattern must match at the start of the string, and the    *)
(* string may go on after the match.                                       *)
RECURSIVE ReMatch(_, _)
ReMatch(pattern, url) ==
    IF pattern = <<>> THEN TRUE
    ELSE LET e == Head(pattern)
             taken == /\ url # <<>>
                      /\ Lower(Head(url)) \in e.tokens
                      /\ ReMatch(Tail(pattern), Tail(url))
         IN  IF e.kind = "opt"
             THEN taken \/ ReMatch(Tail(pattern), url)
             ELSE taken

is_youtube_url(url) ==
    \E i \in 1..Len(youtube_patterns) : ReMatch(youtube_patterns[i], url)

InitUrl ==
    /\ args \in Arguments
    /\ args.input_exists /\ ~args.is_youtube_url
    /\ ~args.youtube_download_dir /\ ~args.keep_temp_files
    /\ ~args.mix_with_background
    /\ args.tts_provider = "openai"
    /\ args.output_video = "other"
    /\ eleven_client = FALSE
    /\ input_file = InputFileAtStart
    /\ pc = "direct"
    /\ NoCall
    /\ media = NoMedia
    /\ output = NoMedia
    /\ \E n \in 0..MaxTokens : input_source \in [1..n -> Tokens]
    /\ url_class = "unknown"
    /\ Elsewhere

ClassifySource ==
    /\ pc = "direct"
    /\ url_class = "unknown"
    /\ url_class' = IF is_youtube_url(input_source) THEN "remote" ELSE "local"
    /\ UNCHANGED <<callVars, pc, calls, completed, original_duration,
                   hindi_duration, reconcileVars, composeVars, fileVars,
                   result, error, diskVars, media, output, input_source,
                   cli, gui, http, pair>>

NextUrl == ClassifySource

SpecUrl == InitUrl /\ [][NextUrl]_vars

----------------------------------------------------------------------------
(* replace_audio and mix_audio_with_background on their own.  A video      *)
(* stream is a sequence of frames, an audio stream a sequence of samples,  *)
(* a gain an exact rational.  The audio of the output is the signal handed *)
(* to the AAC encoder.                                                     *)

MaxFrames == 2

MaxSamples == 2

Frames == {0, 1}

Samples == {0, 1}

(* 0.0, the default 0.3, 0.5 and the default 1.0.                          *)
Gains == {Rat(0, 1), Rat(3, 10), Rat(1, 2), Rat(1, 1)}

(* The video file, the speech file and the two volumes; a video file may   *)
(* have no audio stream.                                                   *)
MediaInputs ==
    [video : UNION {[1..n -> Frames] : n \in 1..MaxFrames},
     audio : UNION {[1..n -> Samples] : n \in 0..MaxSamples},
     speech : UNION {[1..n -> Samples] : n \in 1..MaxSamples},
     background_volume : Gains,
     speech_volume : Gains]

RAdd(a, b) == <<a[1] * b[2] + b[1] * a[2], a[2] * b[2]>>

Signal(samples) == [i \in DOMAIN samples |-> Rat(samples[i], 1)]

(* ffmpeg's volume filter: every sample times the gain.                    *)
Volume(signal, gain) == [i \in DOMAIN signal |-> RMul(signal[i], gain)]

(* A codec other than copy writes other bits for the same pictures.        *)
VideoCodecReencode == "libx264"

ReplaceVideoCodec == "copy"

MixVideoCodec == "copy"

VideoOut(stream, vcodec) ==
    IF vcodec = "copy" THEN stream
    ELSE [i \in DOMAIN stream |-> stream[i] + 2]

(* The scale amix gives the input that is left once the other has ended:   *)
(* it rises from 1/2 to 1 over the dropout transition.                     *)
TailScales == {Rat(1, 2), Rat(1, 1)}

(* ffmpeg's amix with inputs=2, duration='longest' and its other options   *)
(* left at their defaults: amix normalizes, so while both inputs run each  *)
(* is scaled by 1/2 before the sum.                                        *)
Amix(first, second, tail_scale) ==
    LET longest == IF Len(first) >= Len(second) THEN Len(first)
                   ELSE Len(second)
    IN  [i \in 1..longest |->
            IF i <= Len(first) /\ i <= Len(second)
            THEN RDiv(RAdd(first[i], second[i]), Rat(2, 1))
            ELSE RMul(IF i <= Len(first) THEN first[i] ELSE second[i],
                      tail_scale)]

(* background_audio = video_input['a'].filter('volume', background_volume) *)
BackgroundAudio == Volume(Signal(media.audio), media.background_volume)

(* The speech volume filter is left out when speech_volume is 1.0.         *)
SpeechAudio ==
    IF media.speech_volume # One
    THEN Volume(Signal(media.speech), media.speech_volume)
    ELSE Signal(media.speech)

NotComposed == compositor = "none" /\ error = "none"

ReplaceAudio ==
    /\ pc = "direct"
    /\ NotComposed
    /\ compositor' = "replace"
    /\ output' = [video |-> VideoOut(media.video, ReplaceVideoCodec),
                  audio |-> Signal(media.speech)]
    /\ UNCHANGED <<callVars, pc, calls, completed, original_duration,
                   hindi_duration, reconcileVars, composed_audio, fileVars,
                   result, error, diskVars, media, input_source, url_class,
                   cli, gui, http, pair>>

MixAudioWithBackground ==
    /\ pc = "direct"
    /\ NotComposed
    /\ compositor' = "mix"
    /\ IF media.audio = <<>>
       THEN /\ Threw("composition")
            /\ UNCHANGED output
       ELSE /\ \E tail_scale \in TailScales :
                   output' = [video |-> VideoOut(media.video, MixVideoCodec),
                              audio |-> Amix(BackgroundAudio, SpeechAudio,
                                             tail_scale)]
            /\ UNCHANGED error
    /\ UNCHANGED <<callVars, pc, calls, completed, original_duration,
                   hindi_duration, reconcileVars, composed_audio, fileVars,
                   result, diskVars, media, input_source, url_class, cli,
                   gui, http, pair>>

InitCompose ==
    /\ args \in Arguments
    /\ args.input_exists /\ ~args.is_youtube_url
    /\ ~args.youtube_download_dir /\ ~args.keep_temp_files
    /\ ~args.mix_with_background
    /\ args.tts_provider = "openai"
    /\ args.output_video = "other"
    /\ eleven_client = FALSE
    /\ input_file = InputFileAtStart
    /\ pc = "direct"
    /\ NoCall
    /\ media \in MediaInputs
    /\ output = NoMedia
    /\ input_source = <<>>
    /\ url_class = "unknown"
    /\ Elsewhere

NextCompose == ReplaceAudio \/ MixAudioWithBackground

SpecCompose == InitCompose /\ [][NextCompose]_vars

----------------------------------------------------------------------------
(* Properties of is_youtube_url, checked under SpecUrl.                    *)

(* The five URL shapes, written out: an optional scheme, then one of these *)
(* host-and-path bodies, then a video id.                                  *)
ShapeSchemes == {<<>>, <<"https://">>, <<"http://">>}

ShapeBodies ==
    { <<"youtube.com", "/watch?v=">>, <<"www.", "youtube.com", "/watch?v=">>,
      <<"youtu.be", "/">>, <<"www.", "youtu.be", "/">>,
      <<"youtube.com", "/embed/">>, <<"www.", "youtube.com", "/embed/">>,
      <<"m.", "youtube.com", "/watch?v=">>,
      <<"youtube.com", "/shorts/">>, <<"www.", "youtube.com", "/shorts/">> }

StartsWith(url, prefix) ==
    /\ Len(url) >= Len(prefix)
    /\ \A i \in 1..Len(prefix) : Lower(url[i]) = prefix[i]

HasShape(url) ==
    \E scheme \in ShapeSchemes, body \in ShapeBodies :
        LET prefix == scheme \o body
        IN  /\ StartsWith(url, prefix)
            /\ Len(url) > Len(prefix)
            /\ Lower(url[Len(prefix) + 1]) \in WordStart

(* The inputs the repository's own checks classify.                        *)
RemoteExamples ==
    { <<"https://", "www.", "youtube.com", "/watch?v=", "w">>,
      <<"https://", "youtu.be", "/", "w">>,
      <<"https://", "www.", "youtube.com", "/embed/", "w">>,
      <<"https://", "m.", "youtube.com", "/watch?v=", "w">>,
      <<"https://", "www.", "youtube.com", "/shorts/", "w">> }

LocalExamples == { <<"w">>, <<"/", "w">>, <<"/", "w", "/", "w">> }

Classified == url_class # "unknown"

----------------------------------------------------------------------------
(* Properties of the two compositors, checked under SpecCompose.           *)

Mixed == compositor = "mix" /\ error = "none"

Replaced == compositor = "replace" /\ error = "none"

SameSignal(a, b) ==
    /\ Len(a) = Len(b)
    /\ \A i \in 1..Len(a) : REq(a[i], b[i])

(* A signal followed by silence up to the given length.                    *)
Padded(signal, length) ==
    [i \in 1..length |-> IF i <= Len(signal) THEN signal[i] ELSE Rat(0, 1)]

Longest ==
    IF Len(media.audio) >= Len(media.speech) THEN Len(media.audio)
    ELSE Len(media.speech)

(* C17: mixing with background_volume = 0 gives the speech track alone,    *)
(* mixing with speech_volume = 0 gives the video's own audio scaled by     *)
(* background_volume alone, and leaving the volume filter out at           *)
(* speech_volume = 1.0 changes nothing.                                    *)
C17_GainIdentities ==
    Mixed =>
        /\ media.background_volume = Rat(0, 1) =>
               SameSignal(output.audio,
                          Padded(Volume(Signal(media.speech),
                                        media.speech_volume), Longest))
        /\ media.speech_volume = Rat(0, 1) =>
               SameSignal(output.audio,
                          Padded(Volume(Signal(media.audio),
                                        media.background_volume), Longest))
        /\ SameSignal(SpeechAudio,
                      Volume(Signal(media.speech), media.speech_volume))

(* C18: whichever compositor ran, the video stream of the output is the    *)
(* video stream of the input, frame for frame; the output holds that       *)
(* stream and one audio stream.                                            *)
C18_VideoCopied ==
    (Mixed \/ Replaced) =>
        /\ output.video = media.video
        /\ DOMAIN output = {"video", "audio"}

C18_Witness ==
    /\ Mixed
    /\ media.video = <<0, 1>>
    /\ output.video = <<0, 1>>
    /\ ~SameSignal(output.audio, Signal(media.audio))

----------------------------------------------------------------------------
(* Further properties of translate_video, checked under Spec.              *)

(* C21: a probe that returns has returned a duration greater than 0, so    *)
(* adjust_audio_duration is never handed a target of 0 to divide by.       *)
C21_ProbePositive ==
    /\ HasCompleted("probe") => original_duration > 0
    /\ CallsOf("reconcile") # {} => target_duration # 0

(* The download into youtube_download_dir was made.                        *)
DownloadedToDir ==
    /\ args.is_youtube_url
    /\ args.youtube_download_dir
    /\ temp_files_to_cleanup # {}

CallEnded == result \in {"returned", "raised"}

(* C23: a video downloaded into youtube_download_dir is still there when   *)
(* the call has ended, whether it returned or raised.                      *)
C23_DownloadKept ==
    (CallEnded /\ DownloadedToDir) => "downloaded_video" \in outside_files

(* C30: for a local input the caller's video is never deleted or           *)
(* overwritten, whatever output_video names; nothing is put on the cleanup *)
(* list and only the output path is written outside the workspace and the  *)
(* debug directory.                                                        *)
C30_InputUntouched ==
    ~args.is_youtube_url =>
        /\ input_file = InputFileAtStart
        /\ temp_files_to_cleanup = {}
        /\ outside_files \subseteq {"output_dir", "output_video"}

----------------------------------------------------------------------------
(* Further properties of adjust_audio_duration, checked under              *)
(* SpecReconcile.                                                          *)

(* The product of the applied factors times the duration of the            *)
(* synthesized audio.                                                      *)
ProductTimesOriginal == RMul(Product(plan), Rat(hindi_duration, 1))

C26_FallbackUnreachable ==
    (PlanBuilt /\ policy = "chained") =>
        LET speed_factor == SpeedFactor(hindi_duration, target_duration)
        IN  /\ Len(plan) = 2
            /\ AboveRange =>
                   /\ plan[1] = RMin(speed_factor, MaxTempo)
                   /\ REq(plan[1], Rat(2, 1))
                   /\ RLt(One, RDiv(speed_factor, plan[1]))
            /\ BelowRange =>
                   /\ plan[1] = RMax(speed_factor, MinTempo)
                   /\ REq(plan[1], Rat(1, 2))
                   /\ RLt(RDiv(speed_factor, plan[1]), One)
            /\ AboveRange \/ BelowRange

C26_Witness ==
    /\ Adjusted
    /\ policy = "chained"
    /\ hindi_duration = 5
    /\ target_duration = 2
    /\ Len(plan) = 2
    /\ REq(plan[2], Rat(5, 4))

----------------------------------------------------------------------------
(* The window of video_translator_gui.py: the input field, the Start and   *)
(* Cancel buttons, and the worker threads start_translation creates.       *)

(* The variables of one translate_video call.                              *)
pipelineVars ==
    <<callVars, pc, calls, completed, original_duration, hindi_duration,
      reconcileVars, composeVars, fileVars, result, error, diskVars>>

MaxWorkers == 2

(* The parameters VideoTranslator.__init__ and translate_video accept.     *)
InitParams == {"api_key", "elevenlabs_api_key"}

TranslateVideoParams ==
    {"input_source", "output_video", "target_language", "voice",
     "keep_temp_files", "youtube_download_dir", "mix_with_background",
     "background_volume", "speech_volume", "tts_provider",
     "elevenlabs_api_key"}

(* The keyword arguments WorkerThread.run passes to the constructor.       *)
WorkerInitKwargs == {"api_key", "elevenlabs_api_key", "progress_callback"}

(* The params dictionary start_translation builds.                         *)
StartParams ==
    {"input_source", "output_video", "target_language", "voice",
     "keep_temp_files", "youtube_download_dir", "mix_with_background",
     "background_volume", "speech_volume", "api_key", "tts_provider",
     "elevenlabs_api_key", "generate_subtitles"}

(* What is left of it when run hands it to translate_video as keywords.   *)
WorkerTranslateKwargs(tts_provider) ==
    (StartParams \ {"api_key"})
        \ (IF tts_provider # "elevenlabs" THEN {"elevenlabs_api_key"}
           ELSE {})

(* A call binds when every keyword it passes is a parameter; Python raises *)
(* TypeError otherwise.                                                    *)
Binds(kwargs, params) == kwargs \subseteq params

(* The window after construction: Start enabled, Cancel disabled, no       *)
(* worker; the provider radio button and the ElevenLabs key field as the   *)
(* user has left them.                                                     *)
GuiStates ==
    [ current_input_source : {FALSE},      \* the input is not empty
      translate_button     : {TRUE},       \* Start is enabled
      cancel_button        : {FALSE},      \* Cancel is enabled
      elevenlabs_radio     : BOOLEAN,
      elevenlabs_key_field : BOOLEAN,
      workers              : {<<>>} ]      \* worker_thread is the last one

Worker(tts_provider, valid) ==
    [ state        |-> "running",
      tts_provider |-> tts_provider,
      valid        |-> valid,     \* source and keys valid, no stage fails
      emitted      |-> "none",
      handled      |-> FALSE ]

guiOthers ==
    <<pipelineVars, media, output, input_source, url_class, cli, http, pair>>

(* textChanged of the input field: typing, browsing, dropping a file.      *)
on_input_changed ==
    /\ \E text \in BOOLEAN :
           gui' = [gui EXCEPT !.current_input_source = text,
                              !.translate_button = text]
    /\ UNCHANGED guiOthers

(* A click on Start, which an enabled button alone lets through.           *)
start_translation ==
    /\ gui.translate_button
    /\ Len(gui.workers) < MaxWorkers
    /\ IF ~gui.current_input_source
          \/ (gui.elevenlabs_radio /\ ~gui.elevenlabs_key_field)
       THEN UNCHANGED gui
       ELSE \E valid \in BOOLEAN :
                gui' = [gui EXCEPT
                           !.translate_button = FALSE,
                           !.cancel_button = TRUE,
                           !.workers =
                               Append(@, Worker(IF gui.elevenlabs_radio
                                                THEN "elevenlabs"
                                                ELSE "openai", valid))]
    /\ UNCHANGED guiOthers

(* A click on Cancel: worker_thread is terminated if it is running.        *)
cancel_translation ==
    /\ gui.cancel_button
    /\ LET n == Len(gui.workers)
           stopped == IF n > 0 /\ gui.workers[n].state = "running"
                      THEN [gui.workers EXCEPT ![n].state = "terminated"]
                      ELSE gui.workers
       IN  gui' = [gui EXCEPT !.translate_button = TRUE,
                              !.cancel_button = FALSE,
                              !.workers = stopped]
    /\ UNCHANGED guiOthers

(* The signal WorkerThread.run ends with.                                  *)
RunEmits(worker) ==
    IF ~Binds(WorkerInitKwargs, InitParams) THEN "error"
    ELSE IF ~Binds(WorkerTranslateKwargs(worker.tts_provider),
                   TranslateVideoParams) THEN "error"
    ELSE IF worker.valid THEN "finished"
    ELSE "error"

(* WorkerThread.run, from start to end.                                    *)
run ==
    \E i \in 1..Len(gui.workers) :
        /\ gui.workers[i].state = "running"
        /\ gui' = [gui EXCEPT
                      !.workers[i].state = "ended",
                      !.workers[i].emitted = RunEmits(gui.workers[i])]
        /\ UNCHANGED guiOthers

(* The slots on_translation_finished and on_translation_error.             *)
on_translation_signal ==
    \E i \in 1..Len(gui.workers) :
        /\ gui.workers[i].emitted # "none"
        /\ ~gui.workers[i].handled
        /\ gui' = [gui EXCEPT !.translate_button = TRUE,
                              !.cancel_button = FALSE,
                              !.workers[i].handled = TRUE]
        /\ UNCHANGED guiOthers

InitGui ==
    /\ args \in Arguments
    /\ args.input_exists /\ ~args.is_youtube_url
    /\ ~args.youtube_download_dir /\ ~args.keep_temp_files
    /\ ~args.mix_with_background
    /\ args.tts_provider = "openai"
    /\ args.output_video = "other"
    /\ eleven_client = FALSE
    /\ input_file = InputFileAtStart
    /\ pc = "direct"
    /\ NoCall
    /\ media = NoMedia
    /\ output = NoMedia
    /\ input_source = <<>>
    /\ url_class = "unknown"
    /\ cli = NoCli
    /\ gui \in GuiStates
    /\ http = NoHttp
    /\ pair = NoPair

NextGui ==
    \/ on_input_changed
    \/ start_translation
    \/ cancel_translation
    \/ run
    \/ on_translation_signal

SpecGui == InitGui /\ [][NextGui]_vars

(* Properties of the window, checked under SpecGui.                        *)

RunningWorkers ==
    {i \in 1..Len(gui.workers) : gui.workers[i].state = "running"}

(* C27: at most one worker thread is running, and while one is running the *)
(* Start button is disabled.                                               *)
C27_OneWorker ==
    /\ Cardinality(RunningWorkers) <= 1
    /\ RunningWorkers # {} => ~gui.translate_button

(* C28: a run on a valid source with valid keys whose stages all succeed   *)
(* ends with finished emitted and error not; every run that ends has       *)
(* emitted exactly one of the two.                                         *)
C28_FinishedEmitted ==
    \A i \in 1..Len(gui.workers) :
        gui.workers[i].state = "ended" =>
            /\ gui.workers[i].emitted \in {"finished", "error"}
            /\ gui.workers[i].valid => gui.workers[i].emitted = "finished"

----------------------------------------------------------------------------
(* main(): the command line, the construction of the translator and the    *)
(* one translate_video call.                                               *)

(* The options and environment variables that carry a credential.          *)
CliOptions ==
    [ api_key            : BOOLEAN,   \* --api-key given
      env_openai         : BOOLEAN,   \* OPENAI_API_KEY set
      elevenlabs_api_key : BOOLEAN,   \* --elevenlabs-api-key given
      env_elevenlabs     : BOOLEAN ]  \* ELEVENLABS_API_KEY set

(* The elevenlabs_api_key argument main() gives the constructor: none, it  *)
(* calls VideoTranslator(api_key=args.api_key).                            *)
MainElevenlabsArgument == FALSE

(* VideoTranslator.__init__: the ElevenLabs client exists when the         *)
(* argument or the environment has a key.                                  *)
ElevenClient(elevenlabs_api_key, env_elevenlabs) ==
    elevenlabs_api_key \/ env_elevenlabs

(* translator = VideoTranslator(api_key=args.api_key); the constructor     *)
(* raises ValueError without an OpenAI key and main() exits.  The          *)
(* elevenlabs_api_key that main() then passes to translate_video is not    *)
(* read there.                                                             *)
Main ==
    /\ pc = "main"
    /\ IF cli.api_key \/ cli.env_openai
       THEN /\ eleven_client' =
                   ElevenClient(MainElevenlabsArgument, cli.env_elevenlabs)
            /\ pc' = "entry"
            /\ UNCHANGED <<result, error>>
       ELSE /\ pc' = "Failed"
            /\ result' = "raised"
            /\ Threw("openai_key")
            /\ UNCHANGED eleven_client
    /\ UNCHANGED <<args, input_file, calls, completed, original_duration,
                   hindi_duration, reconcileVars, composeVars, fileVars,
                   diskVars, operandVars>>

(* The command line names an existing local file; --tts-provider is one of *)
(* the two choices argparse admits.                                        *)
InitCli ==
    /\ args \in Arguments
    /\ args.input_exists /\ ~args.is_youtube_url
    /\ ~args.youtube_download_dir
    /\ args.tts_provider \in {"openai", "elevenlabs"}
    /\ args.output_video = "other"
    /\ eleven_client = FALSE
    /\ input_file = InputFileAtStart
    /\ pc = "main"
    /\ NoCall
    /\ media = NoMedia
    /\ output = NoMedia
    /\ input_source = <<>>
    /\ url_class = "unknown"
    /\ cli \in CliOptions
    /\ gui = NoGui
    /\ http = NoHttp
    /\ pair = NoPair

NextCli == Main \/ Next

SpecCli == InitCli /\ [][NextCli]_vars

(* Properties of main(), checked under SpecCli.                            *)

(* C24: with --tts-provider elevenlabs and --elevenlabs-api-key given and  *)
(* no ELEVENLABS_API_KEY set, the translator main() built has an           *)
(* ElevenLabs client and the synthesis does not fail for lack of a         *)
(* credential.                                                             *)
C24_CliKeyUsed ==
    (/\ args.tts_provider = "elevenlabs"
     /\ cli.elevenlabs_api_key
     /\ ~cli.env_elevenlabs
     /\ pc # "main"
     /\ error # "openai_key") =>
        /\ eleven_client
        /\ error # "credential"

----------------------------------------------------------------------------
(* workflow/app.py: the three handlers, which FastAPI runs on a thread     *)
(* pool, so that the statements of concurrent requests interleave.  A      *)
(* video is a number; its title and its output path are known by it, and 0 *)
(* is None.                                                                *)

MaxRequests == 2

Videos == 1..MaxRequests

(* The globals of the module (both None), the output directory, the        *)
(* /translate-latest requests and one /download request.                   *)
HttpAtStart ==
    [ LATEST_OUTPUT_PATH |-> 0,
      LATEST_TITLE       |-> 0,
      output_files       |-> {},
      translate          |-> [r \in 1..MaxRequests |->
                                  [pc |-> "idle", video |-> 0]],
      download           |-> [pc |-> "idle", path |-> 0, title |-> 0,
                              status |-> "none"] ]

httpOthers ==
    <<pipelineVars, media, output, input_source, url_class, cli, gui, pair>>

(* translate_latest up to the return of translate_video: the latest video  *)
(* is looked up and translated, its output written to the output           *)
(* directory; or one of the two raises and the request ends.               *)
translate_latest_run ==
    \E r \in 1..MaxRequests :
        /\ http.translate[r].pc = "idle"
        /\ \/ \E video \in Videos :
                 http' = [http EXCEPT
                             !.translate[r] =
                                 [pc |-> "translated", video |-> video],
                             !.output_files = @ \cup {video}]
           \/ http' = [http EXCEPT !.translate[r].pc = "failed"]
        /\ UNCHANGED httpOthers

(* LATEST_OUTPUT_PATH = output_path                                        *)
translate_latest_set_path ==
    \E r \in 1..MaxRequests :
        /\ http.translate[r].pc = "translated"
        /\ http' = [http EXCEPT
                       !.LATEST_OUTPUT_PATH = http.translate[r].video,
                       !.translate[r].pc = "path_set"]
        /\ UNCHANGED httpOthers

(* LATEST_TITLE = title, and the response.                                 *)
translate_latest_set_title ==
    \E r \in 1..MaxRequests :
        /\ http.translate[r].pc = "path_set"
        /\ http' = [http EXCEPT
                       !.LATEST_TITLE = http.translate[r].video,
                       !.translate[r].pc = "done"]
        /\ UNCHANGED httpOthers

(* if not LATEST_OUTPUT_PATH or not os.path.exists(LATEST_OUTPUT_PATH):    *)
(* answer 404.                                                             *)
download_check ==
    /\ http.download.pc = "idle"
    /\ IF http.LATEST_OUTPUT_PATH = 0
          \/ http.LATEST_OUTPUT_PATH \notin http.output_files
       THEN http' = [http EXCEPT !.download.pc = "answered",
                                 !.download.status = "404"]
       ELSE http' = [http EXCEPT !.download.pc = "checked"]
    /\ UNCHANGED httpOthers

(* FileResponse(LATEST_OUTPUT_PATH, ...): the global is read again.        *)
download_read_path ==
    /\ http.download.pc = "checked"
    /\ http' = [http EXCEPT !.download.pc = "path_read",
                            !.download.path = http.LATEST_OUTPUT_PATH]
    /\ UNCHANGED httpOthers

(* filename=f'{LATEST_TITLE}.mp4'                                          *)
download_read_title ==
    /\ http.download.pc = "path_read"
    /\ http' = [http EXCEPT !.download.pc = "title_read",
                            !.download.title = http.LATEST_TITLE]
    /\ UNCHANGED httpOthers

(* The response is sent: FileResponse stats the file then, and a missing   *)
(* file is a server error.                                                 *)
download_send ==
    /\ http.download.pc = "title_read"
    /\ http' = [http EXCEPT
                   !.download.pc = "answered",
                   !.download.status =
                       IF http.download.path \in http.output_files
                       THEN "200" ELSE "500"]
    /\ UNCHANGED httpOthers

(* One round of the loop of clean_output: file.unlink()                    *)
clean_output ==
    /\ \E file \in http.output_files :
           http' = [http EXCEPT !.output_files = @ \ {file}]
    /\ UNCHANGED httpOthers

InitHttp ==
    /\ args \in Arguments
    /\ args.input_exists /\ ~args.is_youtube_url
    /\ ~args.youtube_download_dir /\ ~args.keep_temp_files
    /\ ~args.mix_with_background
    /\ args.tts_provider = "openai"
    /\ args.output_video = "other"
    /\ eleven_client = FALSE
    /\ input_file = InputFileAtStart
    /\ pc = "direct"
    /\ NoCall
    /\ media = NoMedia
    /\ output = NoMedia
    /\ input_source = <<>>
    /\ url_class = "unknown"
    /\ cli = NoCli
    /\ gui = NoGui
    /\ http = HttpAtStart
    /\ pair = NoPair

NextHttp ==
    \/ translate_latest_run
    \/ translate_latest_set_path
    \/ translate_latest_set_title
    \/ download_check
    \/ download_read_path
    \/ download_read_title
    \/ download_send
    \/ clean_output

SpecHttp == InitHttp /\ [][NextHttp]_vars

(* Properties of the HTTP wrapper, checked under SpecHttp.                 *)

NoneRecorded ==
    \A r \in 1..MaxRequests :
        http.translate[r].pc \in {"idle", "translated", "failed"}

(* C29: /download answers 404 when no translation has been recorded or the *)
(* recorded file is gone, and otherwise serves a file under the title that *)
(* the same /translate-latest request recorded.                            *)
C29_DownloadConsistent ==
    http.download.pc = "answered" =>
        /\ http.download.status \in {"404", "200"}
        /\ NoneRecorded => http.download.status = "404"
        /\ http.download.status = "200" =>
               /\ http.download.path # 0
               /\ http.download.title = http.download.path

----------------------------------------------------------------------------
(* Two translate_video calls running side by side, e.g. on two threads,    *)
(* with output_video left to generate_output_filename.  A path is a pair   *)
(* <<directory, name>>.                                                    *)

Calls == {1, 2}

(* The names mkdtemp can give a temporary directory.                       *)
TempNames == {"tmp_a", "tmp_b", "tmp_c"}

(* What the two calls are given: a YouTube URL or a local file, the same   *)
(* youtube_download_dir or none, the same source and language or another   *)
(* source.                                                                 *)
PairSettings ==
    [ is_youtube_url       : BOOLEAN,
      youtube_download_dir : BOOLEAN,
      same_source          : BOOLEAN ]

PairAtStart(settings) ==
    [ settings   |-> settings,
      call       |-> [i \in Calls |->
                         [pc |-> "entry", temp_dir |-> "none", uses |-> {}]],
      files      |-> {},
      interfered |-> {} ]

SourceOf(i) ==
    IF i = 1 \/ pair.settings.same_source THEN "video_1" ELSE "video_2"

(* os.path.join(output_dir, safe_title + '.mp4') of download_youtube_video *)
(* with download_dir = youtube_download_dir or the temporary directory.    *)
DownloadPath(i) ==
    IF pair.settings.youtube_download_dir
    THEN <<"youtube_download_dir", SourceOf(i)>>
    ELSE <<pair.call[i].temp_dir, SourceOf(i)>>

(* The video the stages read.                                              *)
InputVideo(i) ==
    IF pair.settings.is_youtube_url THEN DownloadPath(i)
    ELSE <<"input", SourceOf(i)>>

(* generate_output_filename: output/<title or stem>_<language>.mp4         *)
OutputFilename(i) == <<"output", SourceOf(i)>>

Running(j) == pair.call[j].pc \notin {"entry", "ended"}

(* The running calls other than i that have read or written the path.     *)
Disturbed(i, path) ==
    {<<i, j>> : j \in {k \in Calls \ {i} :
                         Running(k) /\ path \in pair.call[k].uses}}

pairOthers ==
    <<pipelineVars, media, output, input_source, url_class, cli, gui, http>>

(* with tempfile.TemporaryDirectory() as temp_dir: a directory that does   *)
(* not exist yet.                                                          *)
pair_enter ==
    \E i \in Calls :
        /\ pair.call[i].pc = "entry"
        /\ \E name \in TempNames \ {pair.call[j].temp_dir : j \in Calls} :
               pair' = [pair EXCEPT !.call[i].pc = "acquire",
                                    !.call[i].temp_dir = name]
        /\ UNCHANGED pairOthers

(* The download is written (yt-dlp leaves a file that is already there as  *)
(* it is), or the local input is found.                                    *)
pair_acquire ==
    \E i \in Calls :
        /\ pair.call[i].pc = "acquire"
        /\ IF pair.settings.is_youtube_url
           THEN pair' = [pair EXCEPT
                            !.call[i].pc = "try",
                            !.call[i].uses = @ \cup {DownloadPath(i)},
                            !.files = @ \cup {DownloadPath(i)},
                            !.interfered =
                                IF DownloadPath(i) \in pair.files THEN @
                                ELSE @ \cup Disturbed(i, DownloadPath(i))]
           ELSE pair' = [pair EXCEPT
                            !.call[i].pc = "try",
                            !.call[i].uses = @ \cup {InputVideo(i)}]
        /\ UNCHANGED pairOthers

(* Steps 1 to 7: the input video is read, the intermediate files are       *)
(* written in the temporary directory, the output video is written with    *)
(* overwrite_output().                                                     *)
pair_compose ==
    \E i \in Calls :
        /\ pair.call[i].pc = "try"
        /\ pair' = [pair EXCEPT
                       !.call[i].pc = "composed",
                       !.call[i].uses =
                           @ \cup {InputVideo(i), OutputFilename(i),
                                   <<pair.call[i].temp_dir, "audio">>},
                       !.files =
                           @ \cup {OutputFilename(i),
                                   <<pair.call[i].temp_dir, "audio">>},
                       !.interfered =
                           @ \cup Disturbed(i, OutputFilename(i))
                             \cup Disturbed(i, <<pair.call[i].temp_dir,
                                                 "audio">>)]
        /\ UNCHANGED pairOthers

(* finally: _cleanup_temp_files removes a download made into               *)
(* youtube_download_dir; the with statement removes the temporary          *)
(* directory.                                                              *)
pair_leave ==
    \E i \in Calls :
        /\ pair.call[i].pc \in {"try", "composed"}
        /\ LET cleaned ==
                   IF pair.settings.is_youtube_url
                      /\ pair.settings.youtube_download_dir
                   THEN {DownloadPath(i)} ELSE {}
               removed ==
                   cleaned \cup {f \in pair.files :
                                    f[1] = pair.call[i].temp_dir}
           IN  pair' = [pair EXCEPT
                           !.call[i].pc = "ended",
                           !.files = @ \ removed,
                           !.interfered =
                               @ \cup UNION {Disturbed(i, f) :
                                                f \in removed \cap pair.files}]
        /\ UNCHANGED pairOthers

InitPair ==
    /\ args \in Arguments
    /\ args.input_exists /\ ~args.is_youtube_url
    /\ ~args.youtube_download_dir /\ ~args.keep_temp_files
    /\ ~args.mix_with_background
    /\ args.tts_provider = "openai"
    /\ args.output_video = "other"
    /\ eleven_client = FALSE
    /\ input_file = InputFileAtStart
    /\ pc = "direct"
    /\ NoCall
    /\ media = NoMedia
    /\ output = NoMedia
    /\ input_source = <<>>
    /\ url_class = "unknown"
    /\ cli = NoCli
    /\ gui = NoGui
    /\ http = NoHttp
    /\ \E settings \in PairSettings :
           /\ settings.youtube_download_dir => settings.is_youtube_url
           /\ pair = PairAtStart(settings)

NextPair == pair_enter \/ pair_acquire \/ pair_compose \/ pair_leave

SpecPair == InitPair /\ [][NextPair]_vars

(* Properties of concurrent calls, checked under SpecPair.                 *)

(* C22: two concurrent calls use distinct workspaces, and neither creates, *)
(* overwrites or deletes a file the other one reads or writes, the same    *)
(* source, language and youtube_download_dir included.                     *)
C22_Independent ==
    /\ (Running(1) /\ Running(2)) =>
           pair.call[1].temp_dir # pair.call[2].temp_dir
    /\ pair.interfered = {}

====
